---- MODULE Spec2Model ----
(***************************************************************************)
(* The on-ledger election state machine of the Online-Voting-System        *)
(* repository: voting::voter_registry, voting::encrypted_ballot,           *)
(* voting::bulletin_board and voting::tally_validator (Move modules).      *)
(*                                                                         *)
(* Every entry function is one action.  A Move transaction that aborts     *)
(* changes no resource; the model records the outcome of the latest        *)
(* transaction in the variable last (function, arguments, abort code,      *)
(* emitted events) so that an abort is observable.                         *)
(***************************************************************************)
EXTENDS Integers, Sequences, FiniteSets, TLC

VARIABLES
    now,         \* aptos_framework::timestamp::now_seconds()
    registry,    \* voter_registry::Registry stored at @voting
    ballot_box,  \* encrypted_ballot::BallotBox stored at @voting
    board,       \* bulletin_board::BulletinBoard stored at @voting
    tally,       \* tally_validator::TallyRecord stored at @voting
    elsewhere,   \* resources of the four modules stored at another address
    last,        \* outcome of the latest transaction or request
    mongo,       \* the web tier's MongoDB collections (Vote, Session)
    redis,       \* the web tier's Redis keys (otp:<identifier>:<type>)
    reqs         \* the web tier's requests in flight: position and locals

(* The state of the web tier (App/backend) *)
web_vars == <<mongo, redis, reqs>>

vars == <<now, registry, ballot_box, board, tally, elsewhere, last, mongo, redis,
          reqs>>

-----------------------------------------------------------------------------
(* Bounds of the model: the last clock value, and the last clock value at   *)
(* which Spec still registers voters.  Then the small sets the arguments of *)
(* the entry functions are drawn from.                                      *)

MaxTime == 4
MaxRegisterTime == 1

Addresses == {"@voting", "@other"}
EpicHashes == {"h1", "h2"}
AadhaarHashes == {"a1", "a2"}
BiometricHashes == {"b1"}
VoterCommitments == {"vc1"}
AllVoterCommitments == {"vc1", "vc2"}
VoteHashes == {"v1", "v2"}
IpfsHashes == {"ipfs1"}
TrackingCodes == {"T1", "T2"}
Candidates == {"candA", "candB"}
VoteCounts == {0, 1}
Percentages == {10000}
ResultHashes == {"H", "X"}
Proofs == {"P1", "P2"}
MerkleRoots == {"R1", "R2"}
MerkleProofs == {<<"n1">>, <<"n1", "n2">>}

(* The web tier: HTTP requests, users, elections *)
ReqIds == {"r1", "r2", "r3", "r4"}
CastReqIds == {"r1", "r2", "r3"}
Users == {"u1", "u2"}
Elections == {"E1"}
EncryptedVotes == {"evA", "evB"}
Similarities == {84, 85}
Otps == {"123456", "654321"}
Identifiers == {"EPIC1"}
OtpTypes == {"epic"}
EmptyBytes == ""

(* Arguments of the initialize calls made after deployment *)
PollingTimes == {0, 4}
ElectionIds == {"OTHER_ELECTION"}

(* Arguments of encrypted_ballot::initialize and tally_validator::initialize *)
PollStart == 1
PollEnd == 3
ElectionId == "TEST_ELECTION_2025"

OK == "OK"

-----------------------------------------------------------------------------
(* aptos_std::table *)

table_contains(t, k) == k \in DOMAIN t

table_add(t, k, v) == t @@ (k :> v)

table_upsert(t, k, v) == [x \in DOMAIN t \cup {k} |-> IF x = k THEN v ELSE t[x]]

-----------------------------------------------------------------------------
(* voting::voter_registry *)

EALREADY_REGISTERED == "EALREADY_REGISTERED"
ENOT_REGISTERED == "ENOT_REGISTERED"
REG_EUNAUTHORIZED == "voter_registry::EUNAUTHORIZED"

VoterRegistration(epic_hash, aadhaar_hash, biometric_hash, at) ==
    [epic_hash |-> epic_hash, aadhaar_hash |-> aadhaar_hash,
     biometric_hash |-> biometric_hash, registered_at |-> at,
     is_active |-> TRUE, is_struck_off |-> TRUE, has_voted |-> FALSE]

RegistrationEvent(epic_hash, at) ==
    [type |-> "RegistrationEvent", key |-> epic_hash, at |-> at]

VotingEvent(epic_hash, at) ==
    [type |-> "VotingEvent", key |-> epic_hash, at |-> at]

registry_initialize(admin) ==
    [voters |-> <<>>, total_registered |-> 0, admin |-> admin]

(* A plausible slip: eligibility as "registered and active" only *)
is_voter_eligible_active_only(epic_hash) ==
    IF ~table_contains(registry.voters, epic_hash)
    THEN FALSE
    ELSE registry.voters[epic_hash].is_active

is_voter_eligible(epic_hash) ==
    IF ~table_contains(registry.voters, epic_hash)
    THEN FALSE
    ELSE registry.voters[epic_hash].is_active
         /\ ~registry.voters[epic_hash].has_voted

get_voter_details(epic_hash) ==
    IF ~table_contains(registry.voters, epic_hash)
    THEN <<FALSE, 0, FALSE, FALSE>>
    ELSE LET voter == registry.voters[epic_hash]
         IN  <<voter.is_active, voter.registered_at, voter.is_struck_off,
               voter.has_voted>>

get_total_registered == registry.total_registered

(* A plausible slip: the flag is never written *)
set_has_voted_skip(reg, epic_hash, flag) == reg

(* A plausible slip: writing the flag makes the record active again *)
set_has_voted_reactivating(reg, epic_hash, flag) ==
    [reg EXCEPT !.voters[epic_hash].has_voted = flag,
                !.voters[epic_hash].is_active = TRUE]

(* The registry with has_voted of a registered epic_hash set to flag *)
set_has_voted(reg, epic_hash, flag) ==
    [reg EXCEPT !.voters[epic_hash].has_voted = flag]

(* A plausible slip: no check that the voter is already registered, the    *)
(* record is written with an upsert                                        *)
register_voter_upsert(epic_hash, aadhaar_hash, biometric_hash) ==
    /\ registry' =
           [registry EXCEPT
              !.voters = table_upsert(registry.voters, epic_hash,
                             VoterRegistration(epic_hash, aadhaar_hash,
                                               biometric_hash, now)),
              !.total_registered = registry.total_registered + 1]
    /\ last' = [op |-> "register_voter",
                args |-> <<epic_hash, aadhaar_hash, biometric_hash>>,
                err |-> OK, events |-> <<RegistrationEvent(epic_hash, now)>>]
    /\ UNCHANGED <<now, ballot_box, board, tally, elsewhere, web_vars>>

register_voter(epic_hash, aadhaar_hash, biometric_hash) ==
    LET args == <<epic_hash, aadhaar_hash, biometric_hash>>
    IN  IF table_contains(registry.voters, epic_hash)
        THEN /\ last' = [op |-> "register_voter", args |-> args,
                         err |-> EALREADY_REGISTERED, events |-> <<>>]
             /\ UNCHANGED <<now, registry, ballot_box, board, tally, elsewhere, web_vars>>
        ELSE /\ registry' =
                    [registry EXCEPT
                       !.voters = table_add(registry.voters, epic_hash,
                                      VoterRegistration(epic_hash, aadhaar_hash,
                                                        biometric_hash, now)),
                       !.total_registered = registry.total_registered + 1]
             /\ last' = [op |-> "register_voter", args |-> args, err |-> OK,
                         events |-> <<RegistrationEvent(epic_hash, now)>>]
             /\ UNCHANGED <<now, ballot_box, board, tally, elsewhere, web_vars>>

mark_voted(epic_hash) ==
    IF ~table_contains(registry.voters, epic_hash)
    THEN /\ last' = [op |-> "mark_voted", args |-> <<epic_hash>>,
                     err |-> ENOT_REGISTERED, events |-> <<>>]
         /\ UNCHANGED <<now, registry, ballot_box, board, tally, elsewhere, web_vars>>
    ELSE /\ registry' = set_has_voted(registry, epic_hash, TRUE)
         /\ last' = [op |-> "mark_voted", args |-> <<epic_hash>>, err |-> OK,
                     events |-> <<VotingEvent(epic_hash, now)>>]
         /\ UNCHANGED <<now, ballot_box, board, tally, elsewhere, web_vars>>

reset_voted_status(epic_hash) ==
    IF ~table_contains(registry.voters, epic_hash)
    THEN /\ last' = [op |-> "reset_voted_status", args |-> <<epic_hash>>,
                     err |-> ENOT_REGISTERED, events |-> <<>>]
         /\ UNCHANGED <<now, registry, ballot_box, board, tally, elsewhere, web_vars>>
    ELSE /\ registry' = set_has_voted(registry, epic_hash, FALSE)
         /\ last' = [op |-> "reset_voted_status", args |-> <<epic_hash>>,
                     err |-> OK, events |-> <<>>]
         /\ UNCHANGED <<now, ballot_box, board, tally, elsewhere, web_vars>>

(* A plausible slip: the record of a deactivated voter is removed *)
deactivate_voter_removing(admin, epic_hash) ==
    LET err == IF admin # registry.admin THEN REG_EUNAUTHORIZED
               ELSE IF ~table_contains(registry.voters, epic_hash)
                    THEN ENOT_REGISTERED
                    ELSE OK
    IN  /\ last' = [op |-> "deactivate_voter", args |-> <<admin, epic_hash>>,
                    err |-> err, events |-> <<>>]
        /\ registry' =
               IF err = OK
               THEN [registry EXCEPT
                       !.voters = [e \in DOMAIN registry.voters \ {epic_hash}
                                      |-> registry.voters[e]]]
               ELSE registry
        /\ UNCHANGED <<now, ballot_box, board, tally, elsewhere, web_vars>>

deactivate_voter(admin, epic_hash) ==
    LET err == IF admin # registry.admin THEN REG_EUNAUTHORIZED
               ELSE IF ~table_contains(registry.voters, epic_hash)
                    THEN ENOT_REGISTERED
                    ELSE OK
    IN  /\ last' = [op |-> "deactivate_voter", args |-> <<admin, epic_hash>>,
                    err |-> err, events |-> <<>>]
        /\ registry' = IF err = OK
                       THEN [registry EXCEPT !.voters[epic_hash].is_active = FALSE]
                       ELSE registry
        /\ UNCHANGED <<now, ballot_box, board, tally, elsewhere, web_vars>>

(* A transaction that sender submits with mark_voted or reset_voted_status   *)
(* as its entry function.  Neither function takes a signer parameter, so    *)
(* the sender of the transaction does not reach it.                         *)
mark_voted_by(sender, epic_hash) == mark_voted(epic_hash)

reset_voted_status_by(sender, epic_hash) == reset_voted_status(epic_hash)

-----------------------------------------------------------------------------
(* voting::bulletin_board *)

ENOT_FOUND == "ENOT_FOUND"

VoteRecord(commitment, at) ==
    [commitment |-> commitment, timestamp |-> at, is_valid |-> TRUE,
     merkle_proof |-> <<>>]

RecordPublishedEvent(tracking_code_hash, at) ==
    [type |-> "RecordPublishedEvent", key |-> tracking_code_hash, at |-> at]

board_initialize(election_id) ==
    [records |-> <<>>, total_records |-> 0, merkle_root |-> EmptyBytes,
     election_id |-> election_id]

(* A plausible slip: a missing record is reported valid *)
get_vote_record_valid_by_default(tracking_code_hash) ==
    IF ~table_contains(board.records, tracking_code_hash)
    THEN <<EmptyBytes, 0, TRUE>>
    ELSE LET record == board.records[tracking_code_hash]
         IN  <<record.commitment, record.timestamp, record.is_valid>>

get_vote_record(tracking_code_hash) ==
    IF ~table_contains(board.records, tracking_code_hash)
    THEN <<EmptyBytes, 0, FALSE>>
    ELSE LET record == board.records[tracking_code_hash]
         IN  <<record.commitment, record.timestamp, record.is_valid>>

(* A plausible slip: the counter is raised by every record_vote *)
record_vote_counts_every_call(tracking_code_hash, commitment) ==
    /\ board' = [board EXCEPT
                   !.records = table_upsert(board.records, tracking_code_hash,
                                            VoteRecord(commitment, now)),
                   !.total_records = board.total_records + 1]
    /\ last' = [op |-> "record_vote",
                args |-> <<tracking_code_hash, commitment>>, err |-> OK,
                events |-> <<RecordPublishedEvent(tracking_code_hash, now)>>]
    /\ UNCHANGED <<now, registry, ballot_box, tally, elsewhere, web_vars>>

(* A plausible slip: an update keeps the merkle proof of the record *)
record_vote_keep_proof(tracking_code_hash, commitment) ==
    LET is_update == table_contains(board.records, tracking_code_hash)
        record == VoteRecord(commitment, now)
    IN  /\ board' =
             IF is_update
             THEN [board EXCEPT
                     !.records[tracking_code_hash] =
                         [record EXCEPT
                            !.merkle_proof =
                                board.records[tracking_code_hash]
                                    .merkle_proof]]
             ELSE [board EXCEPT
                     !.records = table_add(board.records,
                                           tracking_code_hash, record),
                     !.total_records = board.total_records + 1]
        /\ last' = [op |-> "record_vote",
                    args |-> <<tracking_code_hash, commitment>>, err |-> OK,
                    events |-> <<RecordPublishedEvent(tracking_code_hash, now)>>]
        /\ UNCHANGED <<now, registry, ballot_box, tally, elsewhere, web_vars>>

record_vote(tracking_code_hash, commitment) ==
    LET is_update == table_contains(board.records, tracking_code_hash)
        record == VoteRecord(commitment, now)
    IN  /\ board' =
             IF is_update
             THEN [board EXCEPT
                     !.records = table_upsert(board.records,
                                              tracking_code_hash, record)]
             ELSE [board EXCEPT
                     !.records = table_add(board.records,
                                           tracking_code_hash, record),
                     !.total_records = board.total_records + 1]
        /\ last' = [op |-> "record_vote",
                    args |-> <<tracking_code_hash, commitment>>, err |-> OK,
                    events |-> <<RecordPublishedEvent(tracking_code_hash, now)>>]
        /\ UNCHANGED <<now, registry, ballot_box, tally, elsewhere, web_vars>>

(* The abort code of update_merkle_proof: the signer is read and not      *)
(* compared with anything, the record must exist                            *)
update_merkle_proof_err(admin, tracking_code_hash) ==
    IF ~table_contains(board.records, tracking_code_hash) THEN ENOT_FOUND
    ELSE OK

update_merkle_proof(admin, tracking_code_hash, merkle_proof) ==
    LET err == update_merkle_proof_err(admin, tracking_code_hash)
    IN  /\ board' =
             IF err = OK
             THEN [board EXCEPT
                     !.records[tracking_code_hash].merkle_proof = merkle_proof]
             ELSE board
        /\ last' = [op |-> "update_merkle_proof",
                    args |-> <<admin, tracking_code_hash, merkle_proof>>,
                    err |-> err, events |-> <<>>]
        /\ UNCHANGED <<now, registry, ballot_box, tally, elsewhere, web_vars>>

(* bulletin_board::update_merkle_root: the signer is read and not compared  *)
(* with anything                                                            *)
board_update_merkle_root(admin, merkle_root) ==
    /\ board' = [board EXCEPT !.merkle_root = merkle_root]
    /\ last' = [op |-> "board_update_merkle_root",
                args |-> <<admin, merkle_root>>, err |-> OK, events |-> <<>>]
    /\ UNCHANGED <<now, registry, ballot_box, tally, elsewhere, web_vars>>

get_statistics == <<board.total_records, board.merkle_root, board.election_id>>

verify_merkle_proof(tracking_code_hash, merkle_root) ==
    IF ~table_contains(board.records, tracking_code_hash)
    THEN FALSE
    ELSE merkle_root = board.merkle_root

-----------------------------------------------------------------------------
(* voting::encrypted_ballot *)

EPOLLING_NOT_STARTED == "EPOLLING_NOT_STARTED"
EPOLLING_ENDED == "EPOLLING_ENDED"
ENOT_ELIGIBLE == "ENOT_ELIGIBLE"
BALLOT_EUNAUTHORIZED == "encrypted_ballot::EUNAUTHORIZED"

VoteCommitment(voter_commitment, vote_hash, ipfs_hash, tracking_code_hash, at) ==
    [voter_commitment |-> voter_commitment, vote_hash |-> vote_hash,
     ipfs_hash |-> ipfs_hash, tracking_code_hash |-> tracking_code_hash,
     cast_at |-> at, is_final |-> TRUE]

VoteCastEvent(tracking_code_hash, at) ==
    [type |-> "VoteCastEvent", key |-> tracking_code_hash, at |-> at]

VoteReplacedEvent(tracking_code_hash, at) ==
    [type |-> "VoteReplacedEvent", key |-> tracking_code_hash, at |-> at]

ballot_initialize(admin, polling_start, polling_end) ==
    [votes |-> <<>>, vote_count |-> 0, polling_start |-> polling_start,
     polling_end |-> polling_end, admin |-> admin, merkle_root |-> EmptyBytes]

(* The two polling-period assertions of cast_vote, in their order *)
polling_check(t) ==
    IF ~(t >= ballot_box.polling_start) THEN EPOLLING_NOT_STARTED
    ELSE IF ~(t <= ballot_box.polling_end) THEN EPOLLING_ENDED
    ELSE OK

(* A plausible slip: no eligibility assertion *)
cast_vote_err_unchecked(epic_hash) ==
    IF polling_check(now) # OK THEN polling_check(now)
    ELSE IF ~table_contains(registry.voters, epic_hash) THEN ENOT_REGISTERED
    ELSE OK

(* The abort code of cast_vote, OK when it commits: its own assertions and  *)
(* then the assertion of the mark_voted it calls                            *)
cast_vote_err(epic_hash) ==
    IF polling_check(now) # OK THEN polling_check(now)
    ELSE IF ~is_voter_eligible(epic_hash) THEN ENOT_ELIGIBLE
    ELSE IF ~table_contains(registry.voters, epic_hash) THEN ENOT_REGISTERED
    ELSE OK

(* A plausible slip: the counter is raised by every cast *)
store_vote_counts_every_cast(box, commitment) ==
    [box EXCEPT
       !.votes = table_upsert(box.votes, commitment.tracking_code_hash,
                              commitment),
       !.vote_count = box.vote_count + 1]

(* A plausible slip: a key that holds a commitment keeps it *)
store_vote_first_wins(box, commitment) ==
    IF table_contains(box.votes, commitment.tracking_code_hash)
    THEN box
    ELSE [box EXCEPT
            !.votes = table_add(box.votes, commitment.tracking_code_hash,
                                commitment),
            !.vote_count = box.vote_count + 1]

(* A plausible slip: on a re-vote the old commitment is marked not final    *)
(* and the new one is not stored                                            *)
store_vote_marks_only(box, commitment) ==
    IF table_contains(box.votes, commitment.tracking_code_hash)
    THEN [box EXCEPT
            !.votes[commitment.tracking_code_hash].is_final = FALSE]
    ELSE [box EXCEPT
            !.votes = table_add(box.votes, commitment.tracking_code_hash,
                                commitment),
            !.vote_count = box.vote_count + 1]

(* The votes table and the counter after the body of cast_vote *)
store_vote(box, commitment) ==
    LET tracking_code_hash == commitment.tracking_code_hash
        is_revote == table_contains(box.votes, tracking_code_hash)
        marked == IF is_revote
                  THEN [box.votes EXCEPT ![tracking_code_hash].is_final = FALSE]
                  ELSE box.votes
    IN  IF is_revote
        THEN [box EXCEPT
                !.votes = table_upsert(marked, tracking_code_hash, commitment)]
        ELSE [box EXCEPT
                !.votes = table_add(marked, tracking_code_hash, commitment),
                !.vote_count = box.vote_count + 1]

cast_vote_events(epic_hash, tracking_code_hash) ==
    (IF table_contains(ballot_box.votes, tracking_code_hash)
     THEN <<VoteReplacedEvent(tracking_code_hash, now)>>
     ELSE <<>>)
    \o <<VotingEvent(epic_hash, now), VoteCastEvent(tracking_code_hash, now)>>

(* A plausible slip: the vote is stored before eligibility is examined, and *)
(* a failure is reported without undoing the store                          *)
cast_vote_store_before_check(epic_hash, voter_commitment, vote_hash, ipfs_hash, tracking_code_hash) ==
    LET args == <<epic_hash, voter_commitment, vote_hash, ipfs_hash,
                  tracking_code_hash>>
        err == cast_vote_err(epic_hash)
        commitment == VoteCommitment(voter_commitment, vote_hash, ipfs_hash,
                                     tracking_code_hash, now)
    IN  IF polling_check(now) # OK
        THEN /\ last' = [op |-> "cast_vote", args |-> args, err |-> err,
                         events |-> <<>>]
             /\ UNCHANGED <<now, registry, ballot_box, board, tally, elsewhere, web_vars>>
        ELSE /\ ballot_box' = store_vote(ballot_box, commitment)
             /\ registry' = IF err = OK
                            THEN set_has_voted(registry, epic_hash, TRUE)
                            ELSE registry
             /\ last' = [op |-> "cast_vote", args |-> args, err |-> err,
                         events |-> IF err = OK
                                    THEN cast_vote_events(epic_hash,
                                                          tracking_code_hash)
                                    ELSE <<>>]
             /\ UNCHANGED <<now, board, tally, elsewhere, web_vars>>

cast_vote(epic_hash, voter_commitment, vote_hash, ipfs_hash, tracking_code_hash) ==
    LET args == <<epic_hash, voter_commitment, vote_hash, ipfs_hash,
                  tracking_code_hash>>
        err == cast_vote_err(epic_hash)
        commitment == VoteCommitment(voter_commitment, vote_hash, ipfs_hash,
                                     tracking_code_hash, now)
    IN  IF err # OK
        THEN /\ last' = [op |-> "cast_vote", args |-> args, err |-> err,
                         events |-> <<>>]
             /\ UNCHANGED <<now, registry, ballot_box, board, tally, elsewhere, web_vars>>
        ELSE /\ ballot_box' = store_vote(ballot_box, commitment)
             /\ registry' = set_has_voted(registry, epic_hash, TRUE)
             /\ last' = [op |-> "cast_vote", args |-> args, err |-> OK,
                         events |-> cast_vote_events(epic_hash,
                                                     tracking_code_hash)]
             /\ UNCHANGED <<now, board, tally, elsewhere, web_vars>>

(* A plausible slip: the voter commitment is returned as the hash *)
verify_vote_leaky(tracking_code_hash) ==
    IF ~table_contains(ballot_box.votes, tracking_code_hash)
    THEN <<FALSE, EmptyBytes, 0>>
    ELSE LET vote == ballot_box.votes[tracking_code_hash]
         IN  <<vote.is_final, vote.voter_commitment, vote.cast_at>>

verify_vote(tracking_code_hash) ==
    IF ~table_contains(ballot_box.votes, tracking_code_hash)
    THEN <<FALSE, EmptyBytes, 0>>
    ELSE LET vote == ballot_box.votes[tracking_code_hash]
         IN  <<vote.is_final, vote.vote_hash, vote.cast_at>>

is_polling_active ==
    now >= ballot_box.polling_start /\ now <= ballot_box.polling_end

get_vote_count == ballot_box.vote_count

(* A plausible slip: no admin assertion *)
ballot_update_merkle_root_unchecked(admin, merkle_root) ==
    /\ ballot_box' = [ballot_box EXCEPT !.merkle_root = merkle_root]
    /\ last' = [op |-> "ballot_update_merkle_root",
                args |-> <<admin, merkle_root>>, err |-> OK, events |-> <<>>]
    /\ UNCHANGED <<now, registry, board, tally, elsewhere, web_vars>>

(* encrypted_ballot::update_merkle_root *)
ballot_update_merkle_root(admin, merkle_root) ==
    LET err == IF admin # ballot_box.admin THEN BALLOT_EUNAUTHORIZED ELSE OK
    IN  /\ ballot_box' = IF err = OK
                         THEN [ballot_box EXCEPT !.merkle_root = merkle_root]
                         ELSE ballot_box
        /\ last' = [op |-> "ballot_update_merkle_root",
                    args |-> <<admin, merkle_root>>, err |-> err,
                    events |-> <<>>]
        /\ UNCHANGED <<now, registry, board, tally, elsewhere, web_vars>>

(* encrypted_ballot::get_merkle_root *)
ballot_get_merkle_root == ballot_box.merkle_root

-----------------------------------------------------------------------------
(* voting::tally_validator *)

EPOLLING_NOT_ENDED == "EPOLLING_NOT_ENDED"
EALREADY_FINALIZED == "EALREADY_FINALIZED"
TALLY_EUNAUTHORIZED == "tally_validator::EUNAUTHORIZED"
ENOT_FINALIZED == "ENOT_FINALIZED"

CandidateResult(candidate_id, vote_count, percentage) ==
    [candidate_id |-> candidate_id, vote_count |-> vote_count,
     percentage |-> percentage]

TallyStartedEvent(election_id, at, total_votes) ==
    [type |-> "TallyStartedEvent", key |-> election_id, at |-> at,
     total_votes |-> total_votes]

TallyFinalizedEvent(election_id, at, total_votes, valid_votes) ==
    [type |-> "TallyFinalizedEvent", key |-> election_id, at |-> at,
     total_votes |-> total_votes, valid_votes |-> valid_votes]

ResultPublishedEvent(candidate_id, vote_count, percentage) ==
    [type |-> "ResultPublishedEvent", key |-> candidate_id,
     vote_count |-> vote_count, percentage |-> percentage]

tally_initialize(admin, election_id, polling_end_time) ==
    [election_id |-> election_id, results |-> <<>>, total_votes |-> 0,
     valid_votes |-> 0, invalid_votes |-> 0,
     polling_end_time |-> polling_end_time, tally_start_time |-> 0,
     tally_end_time |-> 0, is_finalized |-> FALSE, admin |-> admin,
     result_hash |-> EmptyBytes, zkp_proof |-> EmptyBytes]

(* A plausible slip: no assertion that the tally is not finalized *)
start_tally_err_unchecked(admin) ==
    IF admin # tally.admin THEN TALLY_EUNAUTHORIZED
    ELSE IF ~(now >= tally.polling_end_time) THEN EPOLLING_NOT_ENDED
    ELSE OK

(* A plausible slip: polling must have ended strictly before now *)
start_tally_err_strictly_after(admin) ==
    IF admin # tally.admin THEN TALLY_EUNAUTHORIZED
    ELSE IF ~(now > tally.polling_end_time) THEN EPOLLING_NOT_ENDED
    ELSE IF tally.is_finalized THEN EALREADY_FINALIZED
    ELSE OK

(* The three assertions of start_tally, in their order *)
start_tally_err(admin) ==
    IF admin # tally.admin THEN TALLY_EUNAUTHORIZED
    ELSE IF ~(now >= tally.polling_end_time) THEN EPOLLING_NOT_ENDED
    ELSE IF tally.is_finalized THEN EALREADY_FINALIZED
    ELSE OK

start_tally(admin, total_votes) ==
    LET err == start_tally_err(admin)
    IN  /\ tally' = IF err = OK
                    THEN [tally EXCEPT !.total_votes = total_votes,
                                       !.tally_start_time = now]
                    ELSE tally
        /\ last' = [op |-> "start_tally", args |-> <<admin, total_votes>>,
                    err |-> err,
                    events |-> IF err = OK
                               THEN <<TallyStartedEvent(tally.election_id, now,
                                                        total_votes)>>
                               ELSE <<>>]
        /\ UNCHANGED <<now, registry, ballot_box, board, elsewhere, web_vars>>

(* A plausible slip: no assertion that the tally is not finalized *)
not_finalized_err_unchecked(admin) ==
    IF admin # tally.admin THEN TALLY_EUNAUTHORIZED ELSE OK

(* The two assertions of record_result and of finalize_tally, in their order *)
not_finalized_err(admin) ==
    IF admin # tally.admin THEN TALLY_EUNAUTHORIZED
    ELSE IF tally.is_finalized THEN EALREADY_FINALIZED
    ELSE OK

(* A plausible slip: a result already recorded for the candidate is kept *)
record_result_keep_first(admin, candidate_id, vote_count, percentage) ==
    LET err == not_finalized_err(admin)
        result == CandidateResult(candidate_id, vote_count, percentage)
    IN  /\ tally' =
             IF err # OK THEN tally
             ELSE IF table_contains(tally.results, candidate_id)
             THEN tally
             ELSE [tally EXCEPT
                     !.results = table_add(tally.results, candidate_id, result)]
        /\ last' = [op |-> "record_result",
                    args |-> <<admin, candidate_id, vote_count, percentage>>,
                    err |-> err,
                    events |-> IF err = OK
                               THEN <<ResultPublishedEvent(candidate_id,
                                          vote_count, percentage)>>
                               ELSE <<>>]
        /\ UNCHANGED <<now, registry, ballot_box, board, elsewhere, web_vars>>

record_result(admin, candidate_id, vote_count, percentage) ==
    LET err == not_finalized_err(admin)
        result == CandidateResult(candidate_id, vote_count, percentage)
    IN  /\ tally' =
             IF err # OK THEN tally
             ELSE IF table_contains(tally.results, candidate_id)
             THEN [tally EXCEPT
                     !.results = table_upsert(tally.results, candidate_id, result)]
             ELSE [tally EXCEPT
                     !.results = table_add(tally.results, candidate_id, result)]
        /\ last' = [op |-> "record_result",
                    args |-> <<admin, candidate_id, vote_count, percentage>>,
                    err |-> err,
                    events |-> IF err = OK
                               THEN <<ResultPublishedEvent(candidate_id,
                                          vote_count, percentage)>>
                               ELSE <<>>]
        /\ UNCHANGED <<now, registry, ballot_box, board, elsewhere, web_vars>>

(* The TallyRecord after the body of finalize_tally *)
finalized(t, valid_votes, invalid_votes, result_hash, zkp_proof, at) ==
    [t EXCEPT !.valid_votes = valid_votes,
              !.invalid_votes = invalid_votes,
              !.result_hash = result_hash,
              !.zkp_proof = zkp_proof,
              !.tally_end_time = at,
              !.is_finalized = TRUE]

finalize_tally(admin, valid_votes, invalid_votes, result_hash, zkp_proof) ==
    LET err == not_finalized_err(admin)
    IN  /\ tally' = IF err = OK
                    THEN finalized(tally, valid_votes, invalid_votes,
                                   result_hash, zkp_proof, now)
                    ELSE tally
        /\ last' = [op |-> "finalize_tally",
                    args |-> <<admin, valid_votes, invalid_votes, result_hash,
                               zkp_proof>>,
                    err |-> err,
                    events |-> IF err = OK
                               THEN <<TallyFinalizedEvent(tally.election_id, now,
                                          tally.total_votes, valid_votes)>>
                               ELSE <<>>]
        /\ UNCHANGED <<now, registry, ballot_box, board, elsewhere, web_vars>>

get_candidate_result(candidate_id) ==
    IF ~table_contains(tally.results, candidate_id)
    THEN <<FALSE, 0, 0>>
    ELSE LET result == tally.results[candidate_id]
         IN  <<TRUE, result.vote_count, result.percentage>>

get_tally_summary ==
    <<tally.total_votes, tally.valid_votes, tally.invalid_votes,
      tally.is_finalized, tally.tally_end_time>>

(* A plausible slip: the hashes are compared whether finalized or not *)
verify_tally_proof_any_phase(result_hash) == result_hash = tally.result_hash

verify_tally_proof(result_hash) ==
    IF ~tally.is_finalized THEN FALSE ELSE result_hash = tally.result_hash

(* A plausible slip: no assertion that the tally is finalized *)
get_zkp_proof_unasserted == [err |-> OK, proof |-> tally.zkp_proof]

(* The abort code of the view and the value it returns when it does not abort *)
get_zkp_proof ==
    IF ~tally.is_finalized
    THEN [err |-> ENOT_FINALIZED, proof |-> EmptyBytes]
    ELSE [err |-> OK, proof |-> tally.zkp_proof]

is_finalized == tally.is_finalized

-----------------------------------------------------------------------------
(* The initialize entry functions.  Each one is a move_to of a new resource *)
(* to the signer's account.  Every other function reads the resource at     *)
(* @voting; after deployment @voting holds one resource of each module.     *)

RESOURCE_ALREADY_EXISTS == "RESOURCE_ALREADY_EXISTS"

Deployer == "@voting"

(* exists<type>(addr) *)
resource_exists(addr, type) ==
    addr = Deployer \/ <<addr, type>> \in DOMAIN elsewhere

(* move_to(admin, resource): the Move VM aborts the transaction when the    *)
(* account of admin already holds a resource of that type                   *)
move_to_err(admin, type) ==
    IF resource_exists(admin, type) THEN RESOURCE_ALREADY_EXISTS ELSE OK

(* The resources at other addresses after move_to(admin, resource) *)
move_to(admin, type, resource) ==
    IF move_to_err(admin, type) = OK
    THEN elsewhere @@ (<<admin, type>> :> resource)
    ELSE elsewhere

voter_registry_initialize(admin) ==
    /\ elsewhere' = move_to(admin, "Registry", registry_initialize(admin))
    /\ last' = [op |-> "voter_registry::initialize", args |-> <<admin>>,
                err |-> move_to_err(admin, "Registry"), events |-> <<>>]
    /\ UNCHANGED <<now, registry, ballot_box, board, tally, web_vars>>

encrypted_ballot_initialize(admin, polling_start, polling_end) ==
    /\ elsewhere' = move_to(admin, "BallotBox",
                            ballot_initialize(admin, polling_start,
                                              polling_end))
    /\ last' = [op |-> "encrypted_ballot::initialize",
                args |-> <<admin, polling_start, polling_end>>,
                err |-> move_to_err(admin, "BallotBox"), events |-> <<>>]
    /\ UNCHANGED <<now, registry, ballot_box, board, tally, web_vars>>

bulletin_board_initialize(admin, election_id) ==
    /\ elsewhere' = move_to(admin, "BulletinBoard",
                            board_initialize(election_id))
    /\ last' = [op |-> "bulletin_board::initialize",
                args |-> <<admin, election_id>>,
                err |-> move_to_err(admin, "BulletinBoard"), events |-> <<>>]
    /\ UNCHANGED <<now, registry, ballot_box, board, tally, web_vars>>

tally_validator_initialize(admin, election_id, polling_end_time) ==
    /\ elsewhere' = move_to(admin, "TallyRecord",
                            tally_initialize(admin, election_id,
                                             polling_end_time))
    /\ last' = [op |-> "tally_validator::initialize",
                args |-> <<admin, election_id, polling_end_time>>,
                err |-> move_to_err(admin, "TallyRecord"), events |-> <<>>]
    /\ UNCHANGED <<now, registry, ballot_box, board, tally, web_vars>>

-----------------------------------------------------------------------------
(* App/backend/routes/voting.js: POST /vote/cast.  The handler is async:    *)
(* every await is a point where another request's handler can run, so each  *)
(* step below runs from one await to the next.  The authenticated user      *)
(* exists.                                                                  *)

(* A User document, the fields the handler reads and writes *)
User == [isBlocked |-> FALSE, hasVoted |-> FALSE]

(* sha256 of `${userId}_${electionId}` as hex, taken as injective *)
voterHash(userId, electionId) == <<"sha256", userId, electionId>>

(* The Vote document the request saves; its _id and its generated tracking  *)
(* code are its own                                                         *)
Vote(r, encryptedVote, vh, electionId) ==
    [_id |-> r, trackingCode |-> r, encryptedVote |-> encryptedVote,
     voterHash |-> vh, electionId |-> electionId]

(* The documents Vote.findOne({ voterHash, electionId }) can return *)
matching_votes(vh, electionId) ==
    {v \in mongo.votes : v.voterHash = vh /\ v.electionId = electionId}

(* From the start of the handler to the return of Vote.findOne: existing is *)
(* empty for null and holds the document found otherwise                    *)
cast_findOne(r, userId, encryptedVote, electionId) ==
    LET vh == voterHash(userId, electionId)
        found == matching_votes(vh, electionId)
    IN  /\ reqs[r].pc = "idle"
        /\ ~mongo.users[userId].isBlocked
        /\ \E existing \in (IF found = {} THEN {{}}
                            ELSE {{v} : v \in found}) :
              reqs' = [reqs EXCEPT ![r] =
                         [pc |-> IF existing = {} THEN "save" ELSE "deleteOne",
                          userId |-> userId, encryptedVote |-> encryptedVote,
                          electionId |-> electionId, voterHash |-> vh,
                          existing |-> existing]]
        /\ UNCHANGED <<now, registry, ballot_box, board, tally, elsewhere, last, mongo,
                       redis>>

(* await Vote.deleteOne({ _id: existingVote._id }) *)
cast_deleteOne(r) ==
    /\ reqs[r].pc = "deleteOne"
    /\ mongo' = [mongo EXCEPT
                   !.votes = {v \in mongo.votes :
                                 \A e \in reqs[r].existing : v._id # e._id}]
    /\ reqs' = [reqs EXCEPT ![r].pc = "save"]
    /\ UNCHANGED <<now, registry, ballot_box, board, tally, elsewhere, last, redis>>

(* await vote.save() *)
cast_save(r) ==
    /\ reqs[r].pc = "save"
    /\ mongo' = [mongo EXCEPT
                   !.votes = mongo.votes
                             \cup {Vote(r, reqs[r].encryptedVote,
                                        reqs[r].voterHash,
                                        reqs[r].electionId)}]
    /\ reqs' = [reqs EXCEPT ![r].pc = "respond"]
    /\ UNCHANGED <<now, registry, ballot_box, board, tally, elsewhere, last, redis>>

(* await user.save(), the confirmation mail and the response *)
cast_respond(r) ==
    /\ reqs[r].pc = "respond"
    /\ mongo' = [mongo EXCEPT !.users[reqs[r].userId].hasVoted = TRUE]
    /\ reqs' = [reqs EXCEPT ![r].pc = "done"]
    /\ last' = [op |-> "POST /vote/cast",
                args |-> <<r, reqs[r].userId, reqs[r].electionId>>,
                err |-> OK, events |-> <<>>]
    /\ UNCHANGED <<now, registry, ballot_box, board, tally, elsewhere, redis>>

-----------------------------------------------------------------------------
(* App/backend/routes/auth.js: POST /auth/verify-liveness, one request      *)
(* handled at a time.  similarity is in hundredths; the clock counts the    *)
(* units in which the lock lasts LOCK_DURATION.  The authenticated user     *)
(* exists.                                                                  *)

THRESHOLD == 85
MAX_LIVENESS_ATTEMPTS == 3
LOCK_DURATION == 2

TooManyAttempts == "429 Too many attempts"
LivenessFailed == "401 Liveness verification failed"

(* new Session({ userId, sessionType: 'voting' }); lockedUntil 0 is unset *)
Session == [attempts |-> 0, lockedUntil |-> 0]

(* Session.findOne({ userId, sessionType: 'voting' }), or a new Session *)
session_of(userId) ==
    IF userId \in DOMAIN mongo.sessions THEN mongo.sessions[userId]
    ELSE Session

(* session.lockedUntil && session.lockedUntil > new Date() *)
locked_out(session, at) == session.lockedUntil # 0 /\ session.lockedUntil > at

(* A plausible slip: the lock is set after the fourth failure *)
failed_attempt_lock_late(session, at) ==
    LET attempts == session.attempts + 1
    IN  [attempts |-> attempts,
         lockedUntil |-> IF attempts > MAX_LIVENESS_ATTEMPTS
                         THEN at + LOCK_DURATION
                         ELSE session.lockedUntil]

(* The session after a failed attempt at time at *)
failed_attempt(session, at) ==
    LET attempts == session.attempts + 1
    IN  [attempts |-> attempts,
         lockedUntil |-> IF attempts >= MAX_LIVENESS_ATTEMPTS
                         THEN at + LOCK_DURATION
                         ELSE session.lockedUntil]

verify_liveness(userId, similarity) ==
    LET session == session_of(userId)
        status == IF locked_out(session, now) THEN TooManyAttempts
                  ELSE IF similarity < THRESHOLD THEN LivenessFailed
                  ELSE OK
        saved == IF status = LivenessFailed THEN failed_attempt(session, now)
                 ELSE [session EXCEPT !.attempts = 0]
    IN  /\ mongo' = IF status = TooManyAttempts THEN mongo
                    ELSE [mongo EXCEPT
                            !.sessions = table_upsert(mongo.sessions, userId,
                                                      saved)]
        /\ last' = [op |-> "POST /auth/verify-liveness",
                    args |-> <<userId, similarity>>, err |-> status,
                    events |-> <<>>]
        /\ UNCHANGED <<now, registry, ballot_box, board, tally, elsewhere, redis, reqs>>

-----------------------------------------------------------------------------
(* App/backend/services/otpService.js.  Redis is the variable redis, a      *)
(* function from keys to values; no key expires within a run.  verifyOTP is *)
(* async: each step below runs from one await to the next.                  *)

MAX_ATTEMPTS == 3
MAX_OTP_PER_HOUR == 5

RateLimitExceeded == "OTP request limit exceeded"

(* crypto.createHash('sha256').update(otp).digest('hex'), taken as injective *)
sha256(otp) == <<"sha256", otp>>

otpKey(identifier, type) == <<"otp", identifier, type>>
rateLimitKey(identifier) == <<"otp:ratelimit", identifier>>

(* redis.del *)
redis_del(store, key) == [k \in DOMAIN store \ {key} |-> store[k]]

(* redis.get: empty for null, the value otherwise *)
redis_get(store, key) == IF key \in DOMAIN store THEN {store[key]} ELSE {}

(* generateOTP with the OTP that _generateSecureOTP draws *)
generateOTP(identifier, type, otp) ==
    LET requestCount ==
            (IF rateLimitKey(identifier) \in DOMAIN redis
             THEN redis[rateLimitKey(identifier)] ELSE 0) + 1
        counted == table_upsert(redis, rateLimitKey(identifier), requestCount)
        otpData == [hash |-> sha256(otp), attempts |-> 0]
    IN  /\ redis' = IF requestCount > MAX_OTP_PER_HOUR THEN counted
                    ELSE table_upsert(counted, otpKey(identifier, type),
                                      otpData)
        /\ last' = [op |-> "generateOTP", args |-> <<identifier, type>>,
                    err |-> IF requestCount > MAX_OTP_PER_HOUR
                            THEN RateLimitExceeded ELSE OK,
                    events |-> <<>>]
        /\ UNCHANGED <<now, registry, ballot_box, board, tally, elsewhere, mongo, reqs>>

(* The return of verifyOTP *)
otp_return(r, identifier, type, otp, result) ==
    last' = [op |-> "verifyOTP", args |-> <<r, identifier, type, otp>>,
             err |-> OK, events |-> <<>>, ret |-> result]

(* From the call of verifyOTP to the return of redis.get, and on to the     *)
(* next await or to the return: a missing key returns false, a matching     *)
(* hash returns true                                                        *)
otp_get(r, identifier, type, otp) ==
    LET otpDataStr == redis_get(redis, otpKey(identifier, type))
        exceeded == \E d \in otpDataStr : d.attempts >= MAX_ATTEMPTS
        matches == \E d \in otpDataStr : sha256(otp) = d.hash
        pc == IF otpDataStr = {} THEN "done"
              ELSE IF exceeded THEN "del"
              ELSE IF matches THEN "done"
              ELSE "ttl"
        otpData == IF pc = "ttl"
                   THEN {[d EXCEPT !.attempts = d.attempts + 1] :
                            d \in otpDataStr}
                   ELSE otpDataStr
        result == otpDataStr # {} /\ ~exceeded /\ matches
    IN  /\ reqs[r].pc = "idle"
        /\ reqs' = [reqs EXCEPT ![r] =
                      [pc |-> pc, identifier |-> identifier, type |-> type,
                       otp |-> otp, otpData |-> otpData, ttl |-> 0,
                       result |-> result]]
        /\ IF pc = "done"
           THEN otp_return(r, identifier, type, otp, result)
           ELSE UNCHANGED last
        /\ UNCHANGED <<now, registry, ballot_box, board, tally, elsewhere, mongo, redis>>

(* await redis.del(otpKey); return false *)
otp_del(r) ==
    /\ reqs[r].pc = "del"
    /\ redis' = redis_del(redis, otpKey(reqs[r].identifier, reqs[r].type))
    /\ reqs' = [reqs EXCEPT ![r].pc = "done"]
    /\ otp_return(r, reqs[r].identifier, reqs[r].type, reqs[r].otp, FALSE)
    /\ UNCHANGED <<now, registry, ballot_box, board, tally, elsewhere, mongo>>

(* await redis.ttl(otpKey): 1 stands for the seconds left, -2 is the answer *)
(* for a key that does not exist                                            *)
otp_ttl(r) ==
    /\ reqs[r].pc = "ttl"
    /\ reqs' = [reqs EXCEPT
                  ![r].pc = "setex",
                  ![r].ttl = IF otpKey(reqs[r].identifier, reqs[r].type)
                                  \in DOMAIN redis
                             THEN 1 ELSE -2]
    /\ UNCHANGED <<now, registry, ballot_box, board, tally, elsewhere, last, mongo,
                   redis>>

(* await redis.setex(otpKey, ttl, JSON.stringify(otpData)); return false.   *)
(* With ttl -2 the command is refused and the catch block returns false.    *)
otp_setex(r) ==
    /\ reqs[r].pc = "setex"
    /\ redis' = IF reqs[r].ttl > 0
                THEN table_upsert(redis,
                         otpKey(reqs[r].identifier, reqs[r].type),
                         CHOOSE d \in reqs[r].otpData : TRUE)
                ELSE redis
    /\ reqs' = [reqs EXCEPT ![r].pc = "done"]
    /\ otp_return(r, reqs[r].identifier, reqs[r].type, reqs[r].otp, FALSE)
    /\ UNCHANGED <<now, registry, ballot_box, board, tally, elsewhere, mongo>>

-----------------------------------------------------------------------------
(* Calls of the keyed #[view] functions.  A view reads its resource and     *)
(* writes nothing; its return value is recorded with the call.              *)

view_call(op, key, ret) ==
    /\ last' = [op |-> op, args |-> <<key>>, err |-> OK, events |-> <<>>,
                ret |-> ret]
    /\ UNCHANGED <<now, registry, ballot_box, board, tally, elsewhere, web_vars>>

-----------------------------------------------------------------------------
(* The clock *)

Tick ==
    /\ now < MaxTime
    /\ now' = now + 1
    /\ UNCHANGED <<registry, ballot_box, board, tally, last, elsewhere, web_vars>>

Init ==
    /\ now = 0
    /\ registry = registry_initialize("@voting")
    /\ ballot_box = ballot_initialize("@voting", PollStart, PollEnd)
    /\ board = board_initialize(ElectionId)
    /\ tally = tally_initialize("@voting", ElectionId, PollEnd)
    /\ elsewhere = <<>>
    /\ last = [op |-> "initialize", args |-> <<>>, err |-> OK, events |-> <<>>]
    /\ mongo = [votes |-> {}, sessions |-> <<>>,
                users |-> [u \in Users |-> User]]
    /\ redis = <<>>
    /\ reqs = [r \in ReqIds |-> [pc |-> "idle"]]

(* The registry on its own, with every credential input *)
NextRegistry ==
    \/ Tick
    \/ \E e \in EpicHashes, a \in AadhaarHashes, b \in BiometricHashes :
           register_voter(e, a, b)
    \/ \E e \in EpicHashes : mark_voted(e)
    \/ \E e \in EpicHashes : reset_voted_status(e)
    \/ \E s \in Addresses, e \in EpicHashes : deactivate_voter(s, e)

SpecRegistry == Init /\ [][NextRegistry]_vars

(* Registration and casting.  Voters register up to MaxRegisterTime.  No    *)
(* function of voter_registry or encrypted_ballot calls bulletin_board, so  *)
(* the board is written by none of these transactions.                      *)
Next ==
    \/ Tick
    \/ \E e \in EpicHashes :
           now <= MaxRegisterTime /\ register_voter(e, "a1", "b1")
    \/ \E e \in EpicHashes : mark_voted(e)
    \/ \E e \in EpicHashes : reset_voted_status(e)
    \/ \E s \in Addresses, e \in EpicHashes : deactivate_voter(s, e)
    \/ \E e \in EpicHashes, vc \in VoterCommitments, vh \in VoteHashes,
          i \in IpfsHashes, t \in TrackingCodes : cast_vote(e, vc, vh, i, t)

(* The tally validator on its own *)
NextTally ==
    \/ Tick
    \/ \E s \in Addresses, n \in VoteCounts : start_tally(s, n)
    \/ \E s \in Addresses, c \in Candidates, n \in VoteCounts,
          p \in Percentages : record_result(s, c, n, p)
    \/ \E s \in Addresses, v \in VoteCounts, i \in VoteCounts,
          h \in ResultHashes, z \in Proofs : finalize_tally(s, v, i, h, z)

SpecTally == Init /\ [][NextTally]_vars

(* The admin-gated entry functions of the registry, the ballot box and the  *)
(* tally validator together.  Voters register before polling starts.  The   *)
(* admin drives the tally with one argument tuple per function; any other   *)
(* caller tries every argument.                                             *)
NextAdmin ==
    \/ Tick
    \/ \E e \in EpicHashes :
           now < ballot_box.polling_start /\ register_voter(e, "a1", "b1")
    \/ \E s \in Addresses, e \in EpicHashes : deactivate_voter(s, e)
    \/ \E s \in Addresses, r \in MerkleRoots : ballot_update_merkle_root(s, r)
    \/ \E s \in Addresses, n \in VoteCounts :
           (s = tally.admin => n = 1) /\ start_tally(s, n)
    \/ \E s \in Addresses, c \in Candidates, n \in VoteCounts,
          p \in Percentages :
           (s = tally.admin => c = "candA" /\ n = 1)
           /\ record_result(s, c, n, p)
    \/ \E s \in Addresses, v \in VoteCounts, i \in VoteCounts,
          h \in ResultHashes, z \in Proofs :
           (s = tally.admin => v = 1 /\ i = 0 /\ h = "H" /\ z = "P1")
           /\ finalize_tally(s, v, i, h, z)

SpecAdmin == Init /\ [][NextAdmin]_vars

(* The bulletin board on its own *)
NextBoard ==
    \/ Tick
    \/ \E t \in TrackingCodes, c \in VoteHashes : record_vote(t, c)
    \/ \E s \in Addresses, t \in TrackingCodes, p \in MerkleProofs :
           update_merkle_proof(s, t, p)
    \/ \E s \in Addresses, r \in MerkleRoots : board_update_merkle_root(s, r)

SpecBoard == Init /\ [][NextBoard]_vars

Spec == Init /\ [][Next]_vars

(* Casting with every voter commitment.  Voters register before polling     *)
(* starts and become eligible again by reset_voted_status.                  *)
NextCast ==
    \/ Tick
    \/ \E e \in EpicHashes :
           now < ballot_box.polling_start /\ register_voter(e, "a1", "b1")
    \/ \E e \in EpicHashes : reset_voted_status(e)
    \/ \E e \in EpicHashes, vc \in AllVoterCommitments, vh \in VoteHashes,
          i \in IpfsHashes, t \in TrackingCodes : cast_vote(e, vc, vh, i, t)

SpecCast == Init /\ [][NextCast]_vars

(* Voting and the start of the tally together.  Voters register before      *)
(* polling starts.                                                          *)
NextElection ==
    \/ Tick
    \/ \E e \in EpicHashes :
           now < ballot_box.polling_start /\ register_voter(e, "a1", "b1")
    \/ \E e \in EpicHashes, vh \in VoteHashes, t \in TrackingCodes :
           cast_vote(e, "vc1", vh, "ipfs1", t)
    \/ \E s \in Addresses, n \in VoteCounts : start_tally(s, n)

SpecElection == Init /\ [][NextElection]_vars

(* The keyed views of the four modules, with one writer of each table.      *)
(* Voters register before polling starts.                                   *)
NextViews ==
    \/ Tick
    \/ \E e \in EpicHashes :
           now < ballot_box.polling_start /\ register_voter(e, "a1", "b1")
    \/ \E e \in EpicHashes, t \in TrackingCodes :
           cast_vote(e, "vc1", "v1", "ipfs1", t)
    \/ \E t \in TrackingCodes : record_vote(t, "v1")
    \/ \E c \in Candidates : record_result(tally.admin, c, 1, 10000)
    \/ \E t \in TrackingCodes : view_call("verify_vote", t, verify_vote(t))
    \/ \E t \in TrackingCodes :
           view_call("get_vote_record", t, get_vote_record(t))
    \/ \E e \in EpicHashes :
           view_call("get_voter_details", e, get_voter_details(e))
    \/ \E c \in Candidates :
           view_call("get_candidate_result", c, get_candidate_result(c))

SpecViews == Init /\ [][NextViews]_vars

(* The initialize functions called after deployment, with the admin-gated   *)
(* functions of the registry, the ballot box and the tally validator.       *)
(* Voters register at time 0.                                               *)
NextInit ==
    \/ Tick
    \/ \E s \in Addresses : voter_registry_initialize(s)
    \/ \E s \in Addresses, ps \in PollingTimes, pe \in PollingTimes :
           ps < pe /\ encrypted_ballot_initialize(s, ps, pe)
    \/ \E s \in Addresses, el \in ElectionIds :
           bulletin_board_initialize(s, el)
    \/ \E s \in Addresses, el \in ElectionIds, pe \in PollingTimes :
           tally_validator_initialize(s, el, pe)
    \/ \E e \in EpicHashes : now = 0 /\ register_voter(e, "a1", "b1")
    \/ \E s \in Addresses, e \in EpicHashes : deactivate_voter(s, e)
    \/ \E s \in Addresses : ballot_update_merkle_root(s, "R1")
    \/ \E s \in Addresses : start_tally(s, 1)

SpecInit == Init /\ [][NextInit]_vars

(* POST /vote/cast requests in flight together *)
NextWebCast ==
    \/ \E r \in CastReqIds, u \in Users, ev \in EncryptedVotes,
          el \in Elections : cast_findOne(r, u, ev, el)
    \/ \E r \in CastReqIds : cast_deleteOne(r)
    \/ \E r \in CastReqIds : cast_save(r)
    \/ \E r \in CastReqIds : cast_respond(r)

SpecWebCast == Init /\ [][NextWebCast]_vars

(* Liveness verification requests, one at a time *)
NextLiveness ==
    \/ Tick
    \/ \E u \in Users, sim \in Similarities : verify_liveness(u, sim)

SpecLiveness == Init /\ [][NextLiveness]_vars

(* One OTP is generated for each identifier; verifyOTP calls in flight      *)
(* together                                                                 *)
NextOtp ==
    \/ \E i \in Identifiers, t \in OtpTypes, otp \in Otps :
           rateLimitKey(i) \notin DOMAIN redis /\ generateOTP(i, t, otp)
    \/ \E r \in ReqIds, i \in Identifiers, t \in OtpTypes, otp \in Otps :
           otp_get(r, i, t, otp)
    \/ \E r \in ReqIds : otp_del(r)
    \/ \E r \in ReqIds : otp_ttl(r)
    \/ \E r \in ReqIds : otp_setex(r)

SpecOtp == Init /\ [][NextOtp]_vars

-----------------------------------------------------------------------------
(* Properties of the ballot box, checked under Spec *)

(* The polling window [start, end) of the design *)
InWindow(t) == ballot_box.polling_start <= t /\ t < ballot_box.polling_end

(* The latest transaction is a committed call of op *)
Committed(op) == last.op = op /\ last.err = OK

(* The latest transaction is a committed cast_vote of identity e on key t *)
CastBy(e, t) == Committed("cast_vote") /\ last.args[1] = e /\ last.args[5] = t

(* The commitments the ballot box holds for key t *)
commitments_at(box, t) ==
    IF table_contains(box.votes, t) THEN {box.votes[t]} ELSE {}

(* A step that is a call of op: every transaction writes last, and a call   *)
(* that leaves last as it is leaves every variable as it is.                *)
Call(op) == last' # last /\ last'.op = op

(* The arguments of the cast_vote call a step makes *)
cast_epic == last'.args[1]
cast_vote_hash == last'.args[3]
cast_key == last'.args[5]

(* C1, as stated: directly after a committed castVote of identity e on key  *)
(* t (only the clock moves in between), a second castVote of e on t with    *)
(* any vote hash, later and inside the polling window, commits, after which *)
(* verifyVote(t) = (true, that vote hash, its time) and getVoteCount() is   *)
(* unchanged.                                                               *)
C1_Original ==
    [][( /\ Call("cast_vote")
         /\ CastBy(cast_epic, cast_key)
         /\ now > ballot_box.votes[cast_key].cast_at
         /\ InWindow(now) )
       => /\ last'.err = OK
          /\ \A t \in TrackingCodes :
                t = cast_key
                => verify_vote(t)' = <<TRUE, cast_vote_hash, now>>
          /\ get_vote_count' = get_vote_count]_vars

(* C1, amended: directly after its committed castVote on key t, a second    *)
(* castVote of the same identity inside the polling window aborts           *)
(* ENOT_ELIGIBLE and changes neither the ballot box nor the registry; once  *)
(* reset_voted_status(e) has committed for the still active identity, its   *)
(* castVote on an occupied key t inside the polling window commits, after   *)
(* which verifyVote(t) = (true, the new vote hash, the time of the call)    *)
(* and getVoteCount() is unchanged.                                         *)
C1_Revote ==
    [][/\ ( /\ Call("cast_vote")
            /\ CastBy(cast_epic, cast_key)
            /\ InWindow(now) )
          => /\ last'.err = ENOT_ELIGIBLE
             /\ UNCHANGED <<ballot_box, registry>>
       /\ ( /\ Call("cast_vote")
            /\ Committed("reset_voted_status") /\ last.args[1] = cast_epic
            /\ registry.voters[cast_epic].is_active
            /\ table_contains(ballot_box.votes, cast_key)
            /\ InWindow(now) )
          => /\ last'.err = OK
             /\ \A t \in TrackingCodes :
                   t = cast_key
                   => verify_vote(t)' = <<TRUE, cast_vote_hash, now>>
             /\ get_vote_count' = get_vote_count]_vars

(* h1, the only identity ever registered, has replaced the commitment at T1 *)
(* by vote hash v2 at time 2; one key is counted.                           *)
C1_Witness ==
    /\ Committed("cast_vote")
    /\ last.args = <<"h1", "vc1", "v2", "ipfs1", "T1">>
    /\ last.events[1] = VoteReplacedEvent("T1", 2)
    /\ DOMAIN registry.voters = {"h1"}
    /\ verify_vote("T1") = <<TRUE, "v2", 2>>
    /\ get_vote_count = 1

(* C2: when a castVote with another vote hash supersedes the commitment at  *)
(* key t, the superseded commitment (its vote hash and time) is still held  *)
(* by the ballot box for t, marked not final, and exactly one commitment    *)
(* for t (the new one) is final.                                            *)
C2_SupersededRetained ==
    [][( /\ Call("cast_vote") /\ last'.err = OK
         /\ table_contains(ballot_box.votes, cast_key)
         /\ cast_vote_hash # ballot_box.votes[cast_key].vote_hash )
       => /\ \E c \in commitments_at(ballot_box', cast_key) :
                /\ c.vote_hash = ballot_box.votes[cast_key].vote_hash
                /\ c.cast_at = ballot_box.votes[cast_key].cast_at
                /\ ~c.is_final
          /\ Cardinality({c \in commitments_at(ballot_box', cast_key) :
                             c.is_final}) = 1]_vars

(* C3: for every key a castVote has committed on, the bulletin board record *)
(* and verifyVote report the same commitment hash and the same timestamp.   *)
C3_BoardMirrorsBallotBox ==
    \A t \in DOMAIN ballot_box.votes :
        /\ get_vote_record(t)[1] = verify_vote(t)[2]
        /\ get_vote_record(t)[2] = verify_vote(t)[3]

(* C4: a castVote of an eligible identity aborts EPOLLING_NOT_STARTED when  *)
(* now < start, aborts EPOLLING_ENDED when now >= end, and commits at any   *)
(* other time, now = start included.                                        *)
C4_PollingWindow ==
    [][(Call("cast_vote") /\ is_voter_eligible(cast_epic))
       => last'.err =
             IF now < ballot_box.polling_start THEN EPOLLING_NOT_STARTED
             ELSE IF now >= ballot_box.polling_end THEN EPOLLING_ENDED
             ELSE OK]_vars

(* C5: getVoteCount() is the number of keys of the votes table; a committed *)
(* castVote adds its key to the table and raises the count by 1 when the    *)
(* key is new and by 0 when it supersedes; every other step (an aborted     *)
(* castVote included) leaves the keys and the count as they are; the count  *)
(* never decreases.                                                         *)
C5_DistinctCount ==
    /\ [](get_vote_count = Cardinality(DOMAIN ballot_box.votes))
    /\ [][/\ get_vote_count' >= get_vote_count
          /\ (Call("cast_vote") /\ last'.err = OK)
             => /\ DOMAIN ballot_box'.votes
                      = DOMAIN ballot_box.votes \cup {cast_key}
                /\ get_vote_count' = get_vote_count
                     + (IF table_contains(ballot_box.votes, cast_key)
                        THEN 0 ELSE 1)
          /\ ~(Call("cast_vote") /\ last'.err = OK)
             => /\ DOMAIN ballot_box'.votes = DOMAIN ballot_box.votes
                /\ get_vote_count' = get_vote_count]_vars

(* Keys cast in the sequence A, A, B: two keys are held, the count is 2 and *)
(* the latest cast superseded a commitment.                                 *)
C5_Witness ==
    /\ Committed("cast_vote")
    /\ Len(last.events) = 3
    /\ DOMAIN ballot_box.votes = TrackingCodes
    /\ get_vote_count = 2

-----------------------------------------------------------------------------
(* Properties of the registry, checked under SpecRegistry *)

registered(e) == table_contains(registry.voters, e)

(* The identity a registry call of a step is about *)
call_epic == last'.args[1]

(* C6: a register of an identity that has a record aborts                   *)
(* EALREADY_REGISTERED, whatever credentials it carries, and leaves the     *)
(* registry (the record, total_registered) as it is; a register commits     *)
(* only for an identity without a record, and a record is never removed, so *)
(* no identity is registered twice.                                         *)
C6_RegisterOnce ==
    [][/\ DOMAIN registry.voters \subseteq DOMAIN registry'.voters
       /\ (Call("register_voter") /\ registered(call_epic))
          => /\ last'.err = EALREADY_REGISTERED
             /\ registry' = registry
       /\ (Call("register_voter") /\ last'.err = OK)
          => ~registered(call_epic)]_vars

(* A register of h1 with another credential than the recorded one aborted *)
C6_Witness ==
    /\ last.op = "register_voter" /\ last.err = EALREADY_REGISTERED
    /\ last.args[1] = "h1"
    /\ registered("h1")
    /\ last.args[2] # registry.voters["h1"].aadhaar_hash
    /\ get_total_registered = 1

-----------------------------------------------------------------------------
(* Properties of the tally validator, checked under SpecTally *)

(* C9: a finalizeTally on a finalized tally aborts (EALREADY_FINALIZED for  *)
(* the admin) and changes nothing; once finalized, valid_votes,             *)
(* invalid_votes, result_hash, zkp_proof and tally_end_time keep their      *)
(* values and is_finalized stays true; result_hash and zkp_proof are empty  *)
(* until the finalizeTally that commits, which writes its arguments.        *)
C9_FinalizeOnce ==
    /\ [](~is_finalized
          => tally.result_hash = EmptyBytes /\ tally.zkp_proof = EmptyBytes)
    /\ [][/\ (Call("finalize_tally") /\ is_finalized)
             => /\ last'.err # OK
                /\ last'.args[1] = tally.admin
                   => last'.err = EALREADY_FINALIZED
                /\ tally' = tally
          /\ (Call("finalize_tally") /\ last'.err = OK)
             => /\ ~is_finalized
                /\ tally'.valid_votes = last'.args[2]
                /\ tally'.invalid_votes = last'.args[3]
                /\ tally'.result_hash = last'.args[4]
                /\ tally'.zkp_proof = last'.args[5]
                /\ tally'.tally_end_time = now
          /\ is_finalized
             => /\ is_finalized'
                /\ tally'.valid_votes = tally.valid_votes
                /\ tally'.invalid_votes = tally.invalid_votes
                /\ tally'.result_hash = tally.result_hash
                /\ tally'.zkp_proof = tally.zkp_proof
                /\ tally'.tally_end_time = tally.tally_end_time]_vars

(* The admin's second finalizeTally, with other values than the recorded    *)
(* ones and at a later time, aborted EALREADY_FINALIZED                     *)
C9_Witness ==
    /\ last.op = "finalize_tally" /\ last.err = EALREADY_FINALIZED
    /\ is_finalized
    /\ last.args[2] # tally.valid_votes
    /\ last.args[3] # tally.invalid_votes
    /\ last.args[4] # tally.result_hash
    /\ last.args[5] # tally.zkp_proof
    /\ now > tally.tally_end_time

NotStarted == ~is_finalized /\ tally.tally_start_time = 0

(* C11: a startTally of the admin at now < polling_end_time aborts          *)
(* EPOLLING_NOT_ENDED and leaves the tally as it is; a startTally of the    *)
(* admin at now >= polling_end_time on a tally that was never started nor   *)
(* finalized commits, writes its total_votes argument and now as            *)
(* tally_start_time, and changes no other field.                            *)
C11_StartAfterPollingEnd ==
    [][(Call("start_tally") /\ last'.args[1] = tally.admin)
       => /\ now < tally.polling_end_time
             => /\ last'.err = EPOLLING_NOT_ENDED
                /\ tally' = tally
          /\ (now >= tally.polling_end_time /\ NotStarted)
             => /\ last'.err = OK
                /\ tally' = [tally EXCEPT !.total_votes = last'.args[2],
                                          !.tally_start_time = now]]_vars

(* The admin's startTally with total 1 has committed at the very time       *)
(* polling ends, after a result had been recorded for candA                 *)
C11_Witness ==
    /\ Committed("start_tally")
    /\ last.args = <<"@voting", 1>>
    /\ now = tally.polling_end_time
    /\ tally.total_votes = 1
    /\ tally.tally_start_time = now
    /\ get_candidate_result("candA")[1]
    /\ ~is_finalized

(* C12: before finalization a recordResult of the admin for candidate c     *)
(* commits and getCandidateResult(c) then returns the recorded count and    *)
(* percentage, the results of the other candidates staying as they are;     *)
(* once the tally is finalized every recordResult aborts                    *)
(* (EALREADY_FINALIZED for the admin) and getCandidateResult returns the    *)
(* same value for every candidate in every later state.                     *)
C12_ResultsUntilFinalized ==
    [][/\ (Call("record_result") /\ last'.args[1] = tally.admin
           /\ ~is_finalized)
          => /\ last'.err = OK
             /\ \A c \in Candidates :
                   get_candidate_result(c)' =
                       IF c = last'.args[2]
                       THEN <<TRUE, last'.args[3], last'.args[4]>>
                       ELSE get_candidate_result(c)
       /\ (Call("record_result") /\ is_finalized)
          => /\ last'.err # OK
             /\ last'.args[1] = tally.admin
                => last'.err = EALREADY_FINALIZED
       /\ is_finalized
          => \A c \in Candidates :
                get_candidate_result(c)' = get_candidate_result(c)]_vars

(* The count 0 recorded for candA was replaced by 1 before the              *)
(* finalization; afterwards the admin's recordResult of 0 for candA aborted *)
C12_Witness ==
    /\ last.op = "record_result" /\ last.err = EALREADY_FINALIZED
    /\ last.args = <<"@voting", "candA", 0, 10000>>
    /\ get_candidate_result("candA") = <<TRUE, 1, 10000>>
    /\ get_candidate_result("candB") = <<FALSE, 0, 0>>
    /\ is_finalized

(* C13: getZkpProof() aborts ENOT_FINALIZED in every state in which the     *)
(* tally is not finalized; right after a committed finalizeTally it returns *)
(* the proof argument of that call, and it returns the same proof in every  *)
(* later state.                                                             *)
C13_ProofAfterFinalize ==
    /\ [](~is_finalized => get_zkp_proof.err = ENOT_FINALIZED)
    /\ [][/\ (Call("finalize_tally") /\ last'.err = OK)
             => get_zkp_proof' = [err |-> OK, proof |-> last'.args[5]]
          /\ is_finalized => get_zkp_proof' = get_zkp_proof]_vars

(* getZkpProof() returns P2, the proof of the finalization, after a second  *)
(* finalizeTally carrying P1 has aborted                                    *)
C13_Witness ==
    /\ last.op = "finalize_tally" /\ last.err = EALREADY_FINALIZED
    /\ last.args[5] = "P1"
    /\ get_zkp_proof = [err |-> OK, proof |-> "P2"]

(* C14: before finalization verifyTallyProof(h) is false for every h, the   *)
(* empty hash included; right after a committed finalizeTally it is true    *)
(* exactly for the result_hash argument of that call, and it returns the    *)
(* same answer for every h in every later state.                            *)
C14_VerifyTallyProof ==
    /\ [](~is_finalized
          => \A h \in ResultHashes \cup {EmptyBytes} : ~verify_tally_proof(h))
    /\ [][/\ (Call("finalize_tally") /\ last'.err = OK)
             => \A h \in ResultHashes \cup {EmptyBytes} :
                   verify_tally_proof(h)' <=> h = last'.args[4]
          /\ is_finalized
             => \A h \in ResultHashes \cup {EmptyBytes} :
                   verify_tally_proof(h)' = verify_tally_proof(h)]_vars

(* startTally(1), recordResult(candA, 1, 10000) and                         *)
(* finalizeTally(1, 0, H) have committed: verifyTallyProof(H) is true,      *)
(* verifyTallyProof(X) and verifyTallyProof of the empty hash are false     *)
C14_Witness ==
    /\ Committed("finalize_tally")
    /\ last.args[2] = 1 /\ last.args[3] = 0 /\ last.args[4] = "H"
    /\ tally.total_votes = 1
    /\ get_candidate_result("candA") = <<TRUE, 1, 10000>>
    /\ is_finalized
    /\ verify_tally_proof("H")
    /\ ~verify_tally_proof("X")
    /\ ~verify_tally_proof(EmptyBytes)

-----------------------------------------------------------------------------
(* Properties of the admin-gated entry functions, checked under SpecAdmin *)

(* The admin-gated entry functions of the three modules, each with the      *)
(* admin its module stores and the abort code of its module                 *)
AdminGated ==
    { <<"deactivate_voter", registry.admin, REG_EUNAUTHORIZED>>,
      <<"ballot_update_merkle_root", ballot_box.admin, BALLOT_EUNAUTHORIZED>>,
      <<"start_tally", tally.admin, TALLY_EUNAUTHORIZED>>,
      <<"record_result", tally.admin, TALLY_EUNAUTHORIZED>>,
      <<"finalize_tally", tally.admin, TALLY_EUNAUTHORIZED>> }

(* C15: the admin each of the registry, the ballot box and the tally        *)
(* validator stores is the one of its initialize and never changes; every   *)
(* call of deactivate, BallotBox.updateMerkleRoot, startTally, recordResult *)
(* or finalizeTally by a caller other than its module's admin aborts with   *)
(* that module's EUNAUTHORIZED, whatever its other arguments, and changes   *)
(* no resource.                                                             *)
C15_AdminGating ==
    /\ [](/\ registry.admin = "@voting"
          /\ ballot_box.admin = "@voting"
          /\ tally.admin = "@voting")
    /\ [][\A g \in AdminGated :
             (Call(g[1]) /\ last'.args[1] # g[2])
             => /\ last'.err = g[3]
                /\ UNCHANGED <<now, registry, ballot_box, board, tally>>]_vars

(* After polling has ended, with h1 registered and active and a started     *)
(* tally not yet finalized, a finalizeTally of another caller than the      *)
(* admin aborted EUNAUTHORIZED                                              *)
C15_Witness ==
    /\ last.op = "finalize_tally" /\ last.err = TALLY_EUNAUTHORIZED
    /\ last.args[1] = "@other"
    /\ ~is_finalized
    /\ tally.tally_start_time >= tally.polling_end_time
    /\ registered("h1") /\ registry.voters["h1"].is_active
    /\ ballot_get_merkle_root = "R1"

-----------------------------------------------------------------------------
(* Properties of the bulletin board, checked under SpecBoard *)

(* The identity that initialized the bulletin board: initialize moves the   *)
(* resource to its signer's address and every function borrows it at        *)
(* @voting.                                                                 *)
board_initializer == "@voting"

(* C16: an updateMerkleProof or updateMerkleRoot of the bulletin board by   *)
(* any caller other than the identity that initialized the board aborts and *)
(* leaves the stored merkle root and the merkle proof of every record as    *)
(* they are.                                                                *)
C16_BoardAdminOnly ==
    [][( /\ Call("update_merkle_proof") \/ Call("board_update_merkle_root")
         /\ last'.args[1] # board_initializer )
       => /\ last'.err # OK
          /\ board'.merkle_root = board.merkle_root
          /\ \A t \in DOMAIN board.records :
                board'.records[t].merkle_proof
                    = board.records[t].merkle_proof]_vars

-----------------------------------------------------------------------------
(* Further properties of castVote, checked under Spec and SpecCast *)

C18_LastCommitWins ==
    [][(Call("cast_vote") /\ last'.err = OK)
       => /\ ballot_box'.votes =
                table_upsert(ballot_box.votes, cast_key,
                    VoteCommitment(last'.args[2], cast_vote_hash,
                                   last'.args[4], cast_key, now))
          /\ \A t \in TrackingCodes :
                t = cast_key
                => verify_vote(t)' = <<TRUE, cast_vote_hash, now>>
          /\ get_vote_count' = get_vote_count
               + (IF table_contains(ballot_box.votes, cast_key)
                  THEN 0 ELSE 1)
          /\ (Committed("cast_vote") /\ last.args[5] = cast_key)
             => get_vote_count' = get_vote_count]_vars

(* h1 and h2 have both cast on T1 at the time polling starts; the castVote  *)
(* of h2 with v2 committed last: T1 holds v2 and one key is counted         *)
C18_Witness ==
    /\ Committed("cast_vote")
    /\ last.args = <<"h2", "vc1", "v2", "ipfs1", "T1">>
    /\ last.events[1] = VoteReplacedEvent("T1", ballot_box.polling_start)
    /\ registered("h1") /\ registry.voters["h1"].has_voted
    /\ now = ballot_box.polling_start
    /\ verify_vote("T1") = <<TRUE, "v2", now>>
    /\ DOMAIN ballot_box.votes = {"T1"}
    /\ get_vote_count = 1

(* C19: a castVote that carries the voter commitment, vote hash, payload    *)
(* hash and tracking code of the commitment its key holds (a replay of the  *)
(* castVote that stored it) leaves, whether it commits or aborts, the count *)
(* and the set of keys as they are and the other keys' commitments          *)
(* untouched; the key still holds exactly one commitment, and verifyVote    *)
(* still reports it final with the same vote hash.                          *)
C19_ReplayNoDuplicate ==
    [][( /\ Call("cast_vote")
         /\ table_contains(ballot_box.votes, cast_key)
         /\ ballot_box.votes[cast_key].voter_commitment = last'.args[2]
         /\ ballot_box.votes[cast_key].vote_hash = cast_vote_hash
         /\ ballot_box.votes[cast_key].ipfs_hash = last'.args[4] )
       => /\ get_vote_count' = get_vote_count
          /\ DOMAIN ballot_box'.votes = DOMAIN ballot_box.votes
          /\ Cardinality(commitments_at(ballot_box', cast_key)) = 1
          /\ \A t \in TrackingCodes :
                /\ t = cast_key
                   => /\ verify_vote(t)'[1] = TRUE
                      /\ verify_vote(t)'[2] = verify_vote(t)[2]
                      /\ verify_vote(t)'[2] = cast_vote_hash
                /\ t # cast_key => verify_vote(t)' = verify_vote(t)]_vars

(* h1, the only identity registered, cast (vc1, v1, ipfs1, T1) at time 1;   *)
(* its castVote with the same five arguments at time 2 aborted              *)
(* ENOT_ELIGIBLE: T1, the only key, holds the commitment of time 1 and the  *)
(* count is 1                                                               *)
C19_Witness ==
    /\ last.op = "cast_vote" /\ last.err = ENOT_ELIGIBLE
    /\ last.args = <<"h1", "vc1", "v1", "ipfs1", "T1">>
    /\ DOMAIN registry.voters = {"h1"}
    /\ DOMAIN ballot_box.votes = {"T1"}
    /\ ballot_box.votes["T1"] = VoteCommitment("vc1", "v1", "ipfs1", "T1", 1)
    /\ verify_vote("T1") = <<TRUE, "v1", 1>>
    /\ get_vote_count = 1
    /\ now = 2

(* C20: verifyVote(t) is the not-found sentinel for a free key and          *)
(* otherwise the is_final, vote_hash and cast_at of the commitment at t; a  *)
(* committed castVote on key t with vote hash h at time now makes           *)
(* verifyVote(t) = (true, h, now) and leaves verifyVote of every other key  *)
(* as it was, and no other step changes any verifyVote.  So the outputs of  *)
(* verifyVote after a run are determined by the keys, vote hashes and times *)
(* of its committed castVotes, and not by their identities or voter         *)
(* commitments.                                                             *)
C20_VerifyHidesCaster ==
    /\ [](\A t \in TrackingCodes :
             verify_vote(t) =
                 IF table_contains(ballot_box.votes, t)
                 THEN <<ballot_box.votes[t].is_final,
                        ballot_box.votes[t].vote_hash,
                        ballot_box.votes[t].cast_at>>
                 ELSE <<FALSE, EmptyBytes, 0>>)
    /\ [][\A t \in TrackingCodes :
             verify_vote(t)' =
                 IF Call("cast_vote") /\ last'.err = OK /\ t = cast_key
                 THEN <<TRUE, cast_vote_hash, now>>
                 ELSE verify_vote(t)]_vars

(* T1 and T2 hold commitments with the same vote hash and time and with     *)
(* different voter commitments, cast by h1 and h2: verifyVote answers the   *)
(* same for both                                                            *)
C20_Witness ==
    /\ DOMAIN ballot_box.votes = {"T1", "T2"}
    /\ ballot_box.votes["T1"].voter_commitment = "vc1"
    /\ ballot_box.votes["T2"].voter_commitment = "vc2"
    /\ verify_vote("T1") = <<TRUE, "v1", 1>>
    /\ verify_vote("T2") = verify_vote("T1")
    /\ registered("h1") /\ registry.voters["h1"].has_voted
    /\ registered("h2") /\ registry.voters["h2"].has_voted
    /\ Committed("cast_vote") /\ last.args[1] = "h2"

-----------------------------------------------------------------------------
(* Further properties of the ballot box and the tally, checked under Spec   *)
(* and SpecTally                                                            *)

(* What the public surface of the ballot box shows of the castVote call a   *)
(* step makes: verifyVote of its key after the call, the events of the      *)
(* call, and the change of getVoteCount()                                   *)
cast_observation ==
    [verified |-> IF table_contains(ballot_box'.votes, cast_key)
                  THEN <<ballot_box'.votes[cast_key].is_final,
                         ballot_box'.votes[cast_key].vote_hash,
                         ballot_box'.votes[cast_key].cast_at>>
                  ELSE <<FALSE, EmptyBytes, 0>>,
     events |-> last'.events,
     count_change |-> get_vote_count' - get_vote_count]

(* C21: a committed castVote on key t shows the same verifyVote(t), the     *)
(* same events and the same change of getVoteCount() whether or not t held  *)
(* a commitment before the call, that is, what a cast on a free key shows.  *)
C21_FreshOrReplacement ==
    [][(Call("cast_vote") /\ last'.err = OK)
       => cast_observation =
             [verified |-> <<TRUE, cast_vote_hash, now>>,
              events |-> <<VotingEvent(cast_epic, now),
                           VoteCastEvent(cast_key, now)>>,
              count_change |-> 1]]_vars

(* C22: isPollingActive() is true exactly when start <= now < end, and      *)
(* exactly when the polling assertions of castVote pass.                    *)
C22_PollingActive ==
    /\ is_polling_active <=> InWindow(now)
    /\ is_polling_active <=> polling_check(now) = OK

(* C27: directly after a committed castVote of identity x on key t, a       *)
(* castVote of another identity on t does not replace the commitment t      *)
(* holds.                                                                   *)
C27_SlotOwnership ==
    [][( /\ Call("cast_vote")
         /\ Committed("cast_vote")
         /\ last.args[5] = cast_key
         /\ last.args[1] # cast_epic )
       => ballot_box'.votes[cast_key] = ballot_box.votes[cast_key]]_vars

(* C28: a finalizeTally commits only on a tally a startTally has committed  *)
(* on, and in no state is the tally finalized while tally_start_time was    *)
(* never written.                                                           *)
C28_FinalizeAfterStart ==
    /\ [](is_finalized => tally.tally_start_time # 0)
    /\ [][(Call("finalize_tally") /\ last'.err = OK) => ~NotStarted]_vars

(* C30: getVoteCount() <= getTotalRegistered() in every state.              *)
C30_OneSlotPerVoter == get_vote_count <= get_total_registered

-----------------------------------------------------------------------------
(* Properties across modules, checked under SpecElection and SpecViews *)

(* C29: with the ballot box and the tally validator initialized with the    *)
(* same polling end, at no clock value do both the polling assertions of    *)
(* castVote and the assertions of the admin's startTally pass, and no       *)
(* castVote commits once a startTally has committed.                        *)
C29_NoOverlap ==
    /\ [](ballot_box.polling_end = tally.polling_end_time
          => ~(polling_check(now) = OK /\ start_tally_err(tally.admin) = OK))
    /\ [][(Call("cast_vote") /\ ~NotStarted) => last'.err # OK]_vars

(* The keyed views, each with the keys of the table it reads and its        *)
(* not-found result                                                         *)
KeyedViews ==
    { <<"verify_vote", DOMAIN ballot_box.votes, <<FALSE, EmptyBytes, 0>> >>,
      <<"get_vote_record", DOMAIN board.records, <<EmptyBytes, 0, FALSE>> >>,
      <<"get_voter_details", DOMAIN registry.voters,
        <<FALSE, 0, FALSE, FALSE>> >>,
      <<"get_candidate_result", DOMAIN tally.results, <<FALSE, 0, 0>> >> }

(* C23: a key once written stays in its table, so a key absent from the     *)
(* table was never written.  verifyVote, getVoteRecord, getDetails and      *)
(* getCandidateResult return (false, empty, 0), (empty, 0, false),          *)
(* (false, 0, false, false) and (false, 0, 0) for an absent key; a call of  *)
(* one of them never aborts and changes no resource.                        *)
C23_ViewsNotFound ==
    /\ [](/\ \A t \in TrackingCodes \ DOMAIN ballot_box.votes :
                verify_vote(t) = <<FALSE, EmptyBytes, 0>>
          /\ \A t \in TrackingCodes \ DOMAIN board.records :
                get_vote_record(t) = <<EmptyBytes, 0, FALSE>>
          /\ \A e \in EpicHashes \ DOMAIN registry.voters :
                get_voter_details(e) = <<FALSE, 0, FALSE, FALSE>>
          /\ \A c \in Candidates \ DOMAIN tally.results :
                get_candidate_result(c) = <<FALSE, 0, 0>>)
    /\ [][/\ DOMAIN ballot_box.votes \subseteq DOMAIN ballot_box'.votes
          /\ DOMAIN board.records \subseteq DOMAIN board'.records
          /\ DOMAIN registry.voters \subseteq DOMAIN registry'.voters
          /\ DOMAIN tally.results \subseteq DOMAIN tally'.results
          /\ \A v \in KeyedViews :
                Call(v[1])
                => /\ last'.err = OK
                   /\ UNCHANGED <<now, registry, ballot_box, board, tally>>
                   /\ last'.args[1] \notin v[2] => last'.ret = v[3]]_vars

(* getVoteRecord(T2) returned (empty, 0, false) while the board holds a     *)
(* record for T1, the ballot box a commitment, the registry a voter and the *)
(* tally a result                                                           *)
C23_Witness ==
    /\ last.op = "get_vote_record" /\ last.err = OK
    /\ last.args = <<"T2">>
    /\ last.ret = <<EmptyBytes, 0, FALSE>>
    /\ DOMAIN board.records = {"T1"}
    /\ DOMAIN ballot_box.votes # {}
    /\ DOMAIN registry.voters # {}
    /\ DOMAIN tally.results # {}

-----------------------------------------------------------------------------
(* Properties of the web tier, checked under SpecWebCast, SpecLiveness and  *)
(* SpecOtp                                                                  *)

(* No request is between its first and its last step *)
Quiescent == \A r \in ReqIds : reqs[r].pc \in {"idle", "done"}

(* C24: once every POST /vote/cast request that was started has completed,  *)
(* at most one Vote document exists for each (voterHash, electionId), and   *)
(* for the pair of the request that completed last it is the document that  *)
(* request saved.                                                           *)
C24_WebLastVoteCounts ==
    (Quiescent /\ last.op = "POST /vote/cast")
    => \A u \in Users, el \in Elections :
          LET docs == matching_votes(voterHash(u, el), el)
          IN  /\ Cardinality(docs) <= 1
              /\ (last.args[2] = u /\ last.args[3] = el)
                 => /\ docs # {}
                    /\ \A v \in docs : v._id = last.args[1]

(* The user and the similarity of the verify-liveness request a step makes *)
liveness_user == last'.args[1]
liveness_similarity == last'.args[2]

wrong_code_submitted(r) ==
    /\ reqs[r].pc = "done"
    /\ reqs[r].otpData # {}
    /\ \A d \in reqs[r].otpData : sha256(reqs[r].otp) # d.hash

(* C26: once three verifyOTP calls with a wrong code have returned for an   *)
(* OTP, no verifyOTP call made afterwards for that OTP returns true.  (A    *)
(* call that returns true does so in the step of its redis.get.)            *)
C26_OtpAttemptLimit ==
    [][\A r \in ReqIds :
          ( /\ reqs[r].pc = "idle" /\ reqs'[r].pc = "done"
            /\ Cardinality({w \in ReqIds : wrong_code_submitted(w)}) >= 3 )
          => ~reqs'[r].result]_vars

-----------------------------------------------------------------------------
(* Properties of the registry and the ballot box, checked under Spec and    *)
(* SpecRegistry                                                             *)

(* C31: a markVoted or resetVoted transaction submitted by anyone other     *)
(* than the registry admin leaves hasVoted of every record as it is, and an *)
(* eligible identity stops being eligible only by its own committed         *)
(* castVote or by a call of the admin.                                      *)
C31_FlagGuarded ==
    [][\A e \in EpicHashes :
          /\ \A s \in Addresses \ {registry.admin} :
                 ( /\ registered(e)
                   /\ mark_voted_by(s, e) \/ reset_voted_status_by(s, e) )
                 => registry'.voters[e].has_voted
                      = registry.voters[e].has_voted
          /\ (is_voter_eligible(e) /\ ~is_voter_eligible(e)')
             => \/ Call("cast_vote") /\ cast_epic = e /\ last'.err = OK
                \/ Call("deactivate_voter")
                     /\ last'.args[1] = registry.admin]_vars

(* The record of e exists and is not active *)
deactivated(e) == registered(e) /\ ~registry.voters[e].is_active

(* What C32 says of deactivate and of the records, apart from the abort     *)
(* code of a later castVote: the admin's deactivate of a registered         *)
(* identity commits and clears is_active, of an unregistered one it aborts  *)
(* ENOT_REGISTERED; a deactivated record stays deactivated through every    *)
(* step and is not eligible.                                                *)
DeactivationStays ==
    /\ \A e \in EpicHashes :
           deactivated(e) => deactivated(e)' /\ ~is_voter_eligible(e)'
    /\ (Call("deactivate_voter") /\ last'.args[1] = registry.admin)
       => /\ last'.err = IF registered(last'.args[2])
                         THEN OK ELSE ENOT_REGISTERED
          /\ \A e \in EpicHashes :
                (e = last'.args[2] /\ registered(e)) => deactivated(e)'

(* C32, as stated: deactivation is permanent, and every later castVote of a *)
(* deactivated identity aborts ENOT_ELIGIBLE.                               *)
C32_Original ==
    [][/\ DeactivationStays
       /\ (Call("cast_vote") /\ deactivated(cast_epic))
          => last'.err = ENOT_ELIGIBLE]_vars

(* C32, amended: deactivation is permanent, and every later castVote of a   *)
(* deactivated identity aborts and writes nothing: with ENOT_ELIGIBLE when  *)
(* the polling assertions pass, and with the error of the polling           *)
(* assertion that fails (EPOLLING_NOT_STARTED before polling_start,         *)
(* EPOLLING_ENDED after polling_end) otherwise.                             *)
C32_DeactivationPermanent ==
    [][/\ DeactivationStays
       /\ (Call("cast_vote") /\ deactivated(cast_epic))
          => /\ last'.err = IF now < ballot_box.polling_start
                            THEN EPOLLING_NOT_STARTED
                            ELSE IF now > ballot_box.polling_end
                                 THEN EPOLLING_ENDED
                                 ELSE ENOT_ELIGIBLE
             /\ UNCHANGED <<registry, ballot_box>>]_vars

(* A castVote of h1, deactivated with has_voted cleared, has aborted         *)
(* EPOLLING_ENDED after the end of polling                                   *)
C32_Witness ==
    /\ last.op = "cast_vote" /\ last.err = EPOLLING_ENDED
    /\ last.args[1] = "h1"
    /\ deactivated("h1")
    /\ ~registry.voters["h1"].has_voted
    /\ now > ballot_box.polling_end

(* The fields of a record that registration fixes *)
registration_of(voter) ==
    <<voter.epic_hash, voter.aadhaar_hash, voter.biometric_hash,
      voter.registered_at, voter.is_struck_off>>

(* C33: getTotalRegistered() is the number of records and every record is   *)
(* struck off the physical roll, in every state; no step removes a record   *)
(* or changes its credential hashes, registered_at or is_struck_off; a      *)
(* committed register adds the record of its identity and raises            *)
(* total_registered by 1, every other step leaves the set of records and    *)
(* total_registered as they are.                                            *)
C33_RecordsKept ==
    /\ [](/\ get_total_registered = Cardinality(DOMAIN registry.voters)
          /\ \A e \in DOMAIN registry.voters :
                /\ registry.voters[e].is_struck_off
                /\ registry.voters[e].epic_hash = e)
    /\ [][/\ \A e \in DOMAIN registry.voters :
                /\ e \in DOMAIN registry'.voters
                /\ registration_of(registry'.voters[e])
                     = registration_of(registry.voters[e])
          /\ IF Call("register_voter") /\ last'.err = OK
             THEN /\ ~registered(call_epic)
                  /\ DOMAIN registry'.voters
                       = DOMAIN registry.voters \cup {call_epic}
                  /\ get_total_registered' = get_total_registered + 1
                  /\ registry'.voters[call_epic].registered_at = now
             ELSE /\ DOMAIN registry'.voters = DOMAIN registry.voters
                  /\ get_total_registered' = get_total_registered]_vars

(* Two records, registered at different times with different credentials;   *)
(* h1 has been marked voted and the admin has just deactivated it           *)
C33_Witness ==
    /\ last.op = "deactivate_voter" /\ last.err = OK
    /\ last.args[2] = "h1"
    /\ get_total_registered = 2
    /\ registry.voters["h1"].registered_at = 0
    /\ registry.voters["h1"].aadhaar_hash = "a2"
    /\ registry.voters["h1"].has_voted
    /\ ~registry.voters["h1"].is_active
    /\ registry.voters["h2"].registered_at = 2
    /\ registry.voters["h2"].aadhaar_hash = "a1"

-----------------------------------------------------------------------------
(* Properties of the bulletin board's records, checked under SpecBoard *)

(* The key and the commitment of the record_vote call a step makes *)
record_key == last'.args[1]
record_commitment == last'.args[2]

(* C34: total_records is the number of keys of the records table in every   *)
(* state, and no step removes a key, so it is the number of distinct keys   *)
(* ever recorded; a recordVote(T, c) never aborts, raises total_records by  *)
(* 1 when T is new and by 0 otherwise, and after it getVoteRecord(T) is     *)
(* (c, the time of the call, true); no other step changes total_records.    *)
C34_RecordVoteUpsert ==
    /\ [](board.total_records = Cardinality(DOMAIN board.records))
    /\ [][/\ DOMAIN board.records \subseteq DOMAIN board'.records
          /\ IF Call("record_vote")
             THEN /\ last'.err = OK
                  /\ DOMAIN board'.records
                       = DOMAIN board.records \cup {record_key}
                  /\ board'.total_records = board.total_records
                       + (IF table_contains(board.records, record_key)
                          THEN 0 ELSE 1)
                  /\ \A t \in TrackingCodes :
                        t = record_key
                        => get_vote_record(t)'
                             = <<record_commitment, now, TRUE>>
             ELSE board'.total_records = board.total_records]_vars

(* recordVote(T1, v2) has committed at time 3 on a board that holds T1 and  *)
(* T2, T2 recorded at time 1 with v1: two records are counted and           *)
(* getVoteRecord(T1) is (v2, 3, true)                                       *)
C34_Witness ==
    /\ last.op = "record_vote" /\ last.err = OK
    /\ last.args = <<"T1", "v2">>
    /\ now = 3
    /\ DOMAIN board.records = {"T1", "T2"}
    /\ get_vote_record("T2") = <<"v1", 1, TRUE>>
    /\ get_vote_record("T1") = <<"v2", 3, TRUE>>
    /\ get_statistics[1] = 2

(* C37: a recordVote(T, c) leaves at T the record (c, the time of the call, *)
(* valid, empty merkle proof) whatever T held before, so a proof that       *)
(* updateMerkleProof had installed at T is no longer stored; the global     *)
(* merkle root, the election id and the records of the other keys are       *)
(* unchanged.                                                               *)
C37_RecordVoteResetsProof ==
    [][Call("record_vote")
       => /\ board'.records[record_key]
               = VoteRecord(record_commitment, now)
          /\ board'.records[record_key].merkle_proof = <<>>
          /\ board'.merkle_root = board.merkle_root
          /\ board'.election_id = board.election_id
          /\ \A t \in DOMAIN board.records \ {record_key} :
                board'.records[t] = board.records[t]]_vars

(* recordVote(T1, v1) has committed after the merkle root was set to R2:    *)
(* T1 holds no proof, T2 still holds its proof (n1, n2) and the root is R2  *)
C37_Witness ==
    /\ last.op = "record_vote" /\ last.err = OK
    /\ last.args[1] = "T1"
    /\ board.records["T1"].merkle_proof = <<>>
    /\ "T2" \in DOMAIN board.records
    /\ board.records["T2"].merkle_proof = <<"n1", "n2">>
    /\ board.records["T2"].timestamp < board.records["T1"].timestamp
    /\ board.merkle_root = "R2"

-----------------------------------------------------------------------------
(* The order of the assertions of castVote, checked under Spec *)

(* C36: a castVote made outside the polling window [start, end) by an       *)
(* identity that is not eligible aborts with the timing error,              *)
(* EPOLLING_NOT_STARTED before start and EPOLLING_ENDED from end on, and    *)
(* not with ENOT_ELIGIBLE; it writes nothing.                               *)
C36_PollingBeforeEligibility ==
    [][(Call("cast_vote") /\ ~InWindow(now) /\ ~is_voter_eligible(cast_epic))
       => /\ last'.err = IF now < ballot_box.polling_start
                         THEN EPOLLING_NOT_STARTED
                         ELSE EPOLLING_ENDED
          /\ UNCHANGED <<registry, ballot_box, board, tally>>]_vars

-----------------------------------------------------------------------------
(* Properties of initialization, checked under SpecInit *)

InitializeOps ==
    {"voter_registry::initialize", "encrypted_ballot::initialize",
     "bulletin_board::initialize", "tally_validator::initialize"}

(* C35: every module is initialized in every state of the model, so every   *)
(* initialize call is a second one: it aborts and leaves the registry, the  *)
(* ballot box, the bulletin board and the tally validator as they are; and  *)
(* no step of any kind changes the admin of the registry, of the ballot box *)
(* or of the tally validator, the polling window of the ballot box or the   *)
(* polling end time of the tally validator.                                 *)
C35_InitializeOnce ==
    [][/\ (\E op \in InitializeOps : Call(op))
          => /\ last'.err # OK
             /\ UNCHANGED <<registry, ballot_box, board, tally>>
       /\ registry'.admin = registry.admin
       /\ ballot_box'.admin = ballot_box.admin
       /\ tally'.admin = tally.admin
       /\ ballot_box'.polling_start = ballot_box.polling_start
       /\ ballot_box'.polling_end = ballot_box.polling_end
       /\ tally'.polling_end_time = tally.polling_end_time]_vars

====
